---- MODULE Spec2Model ----
(***************************************************************************)
(* Model of promptifier (src/src/main.rs): the template expander           *)
(* `generate`, its frame stack, the weight-specifier parser `parse_weight`,*)
(* the selection `Frame::choose`, and the repeat loop of `main`.           *)
(*                                                                         *)
(* A string is a sequence of characters; a character is a one-element      *)
(* TLA+ string, except "U+00E9" which stands for the single character      *)
(* e-acute, two bytes long in UTF-8.  Rust's str::len, str::find and the   *)
(* slices count bytes, so the model keeps byte lengths (ByteLen) apart     *)
(* from character counts (Len).                                            *)
(*                                                                         *)
(* An f64 weight is modelled by an integer: the templates of the model use *)
(* only integer weight literals (no '.', no exponent, no inf/nan), on      *)
(* which f64 arithmetic is exact.  A draw of rng.gen::<f64>() is k/RngDen  *)
(* for an integer k in 0..RngDen-1; comparisons are done on both sides     *)
(* multiplied by RngDen.                                                   *)
(***************************************************************************)
EXTENDS Integers, Sequences, FiniteSets, TLC

\* ---------------------------------------------------------------- bounds
\* longest template enumerated over Alphabet
MaxLen == 3
\* most alternatives in an enumerated choice group
MaxAlts == 3
\* Args.num of the model: how many prompts main generates
MaxNum == 2
\* resolution of the random source: draws are k/RngDen
RngDen == 16

\* ------------------------------------------------------------ characters
Control == {"|", "{", "}"}

\* UTF-8 length of a character
ByteLen(c) == IF c = "U+00E9" THEN 2 ELSE 1

RECURSIVE StrLen(_)
\* str::len : the number of bytes of a string
StrLen(s) == IF s = <<>> THEN 0 ELSE ByteLen(s[1]) + StrLen(Tail(s))

DigitVal(c) ==
  CASE c = "0" -> 0 [] c = "1" -> 1 [] c = "2" -> 2 [] c = "3" -> 3 [] c = "4" -> 4
    [] c = "5" -> 5 [] c = "6" -> 6 [] c = "7" -> 7 [] c = "8" -> 8 [] c = "9" -> 9
    [] OTHER -> -1

RECURSIVE DecimalValue(_)
DecimalValue(s) ==
  IF s = <<>> THEN 0 ELSE 10 * DecimalValue(SubSeq(s, 1, Len(s) - 1)) + DigitVal(s[Len(s)])

\* str::parse::<f64> on the literals of the model: an optional sign and one or
\* more decimal digits; anything else (the empty string included) is a
\* ParseFloatError.  "-0" parses to -0.0, which is modelled by 0.
ParseFloat(s) ==
  LET signed == s # <<>> /\ s[1] \in {"-", "+"}
      digits == IF signed THEN Tail(s) ELSE s
      ok     == digits # <<>> /\ \A i \in 1..Len(digits) : DigitVal(digits[i]) >= 0
  IN  IF ~ok THEN [ok |-> FALSE, value |-> 0]
      ELSE [ok |-> TRUE,
            value |-> IF signed /\ s[1] = "-" THEN 0 - DecimalValue(digits)
                      ELSE DecimalValue(digits)]

\* ------------------------------------------------------- Choice and Frame
\* Choice::new
Choice_new == [text |-> <<>>, weight |-> 1]

\* Frame::new
Frame_new(start_index) ==
  [start_index |-> start_index, choices |-> <<>>, top |-> Choice_new]

\* Frame::push : the open choice joins the list, `choice` becomes the open one
Frame_push(frame, choice) ==
  [frame EXCEPT !.choices = Append(frame.choices, frame.top), !.top = choice]

\* self.choices.into_iter().chain(once(self.top)).collect()
Options(frame) == Append(frame.choices, frame.top)

RECURSIVE SumWeights(_)
SumWeights(cs) == IF cs = <<>> THEN 0 ELSE cs[1].weight + SumWeights(Tail(cs))

RECURSIVE WeightedWalk_no_subtraction(_, _, _)
\* the loop without `weighted_index -= choice.weight`
WeightedWalk_no_subtraction(choices, i, wi) ==
  IF i > Len(choices) THEN i
  ELSE IF wi <= choices[i].weight * RngDen THEN i
  ELSE WeightedWalk_no_subtraction(choices, i + 1, wi)

RECURSIVE WeightedWalk(_, _, _)
\* the for loop of the None branch of Frame::choose, over self.choices from
\* position i, with weighted_index (times RngDen) = wi: the position of the
\* choice returned, or Len(choices)+1 when the loop ends and self.top is returned
WeightedWalk(choices, i, wi) ==
  IF i > Len(choices) THEN i
  ELSE IF wi <= choices[i].weight * RngDen THEN i
  ELSE WeightedWalk(choices, i + 1, wi - choices[i].weight * RngDen)

\* the None branch of Frame::choose with the draw k/RngDen: position in Options
WeightedIndex(frame, k) ==
  LET weight_sum == SumWeights(frame.choices) + frame.top.weight
  IN  WeightedWalk(frame.choices, 1, k * weight_sum)

\* the sort key of the deterministic modes
SortKey(c, guidance) ==
  IF guidance \in {"Longest", "Shortest"} THEN StrLen(c.text) ELSE c.weight

RECURSIVE InsertStable_before_equals(_, _, _)
\* x placed before the elements of equal key: an insertion that reverses ties
InsertStable_before_equals(sorted, x, guidance) ==
  IF sorted = <<>> THEN <<x>>
  ELSE IF SortKey(sorted[Len(sorted)], guidance) < SortKey(x, guidance)
       THEN Append(sorted, x)
       ELSE Append(InsertStable_before_equals(SubSeq(sorted, 1, Len(sorted) - 1),
                                              x, guidance),
                   sorted[Len(sorted)])

RECURSIVE InsertStable(_, _, _)
\* x placed after every element whose key is not greater: a stable insertion
InsertStable(sorted, x, guidance) ==
  IF sorted = <<>> THEN <<x>>
  ELSE IF SortKey(sorted[Len(sorted)], guidance) <= SortKey(x, guidance)
       THEN Append(sorted, x)
       ELSE Append(InsertStable(SubSeq(sorted, 1, Len(sorted) - 1), x, guidance),
                   sorted[Len(sorted)])

RECURSIVE SortOptions(_, _)
\* options.sort_by_key / options.sort_by : ascending and stable
SortOptions(options, guidance) ==
  IF options = <<>> THEN <<>>
  ELSE InsertStable(SortOptions(SubSeq(options, 1, Len(options) - 1), guidance),
                    options[Len(options)], guidance)

\* Frame::choose with the loop of the None branch left out: self.top is returned
Frame_choose_top_only(frame, k, guidance) ==
  IF guidance = "None"
  THEN frame.top
  ELSE LET options == SortOptions(Options(frame), guidance)
       IN  IF guidance \in {"Longest", "MostLikely"}
           THEN options[Len(options)]
           ELSE options[1]

\* Frame::choose : k is the draw taken in the None branch (unused otherwise)
Frame_choose(frame, k, guidance) ==
  IF guidance = "None"
  THEN Options(frame)[WeightedIndex(frame, k)]
  ELSE LET options == SortOptions(Options(frame), guidance)
       IN  IF guidance \in {"Longest", "MostLikely"}
           THEN options[Len(options)]
           ELSE options[1]

\* Frame::choose drawing before it looks at the guidance
DrawsTaken_always(guidance) == 1

\* the draws Frame::choose takes from the random source: one in the None
\* branch, none with a guidance
DrawsTaken(guidance) == IF guidance = "None" THEN 1 ELSE 0

\* ------------------------------------------------------------------ Stack
\* Stack::new
Stack_new == [stack |-> <<>>, top |-> Frame_new(0)]

\* Stack::push
Stack_push(st, start_index) ==
  [stack |-> Append(st.stack, st.top), top |-> Frame_new(start_index)]

\* Stack::pop handing out the top frame without restoring its parent
Stack_pop_keeps(st) ==
  IF st.stack = <<>>
  THEN [some |-> FALSE, frame |-> st.top, stack |-> st]
  ELSE [some |-> TRUE, frame |-> st.top,
        stack |-> [st EXCEPT !.top = st.stack[Len(st.stack)]]]

\* Stack::pop : None when no frame was pushed, else the frame that was on top
Stack_pop(st) ==
  IF st.stack = <<>>
  THEN [some |-> FALSE, frame |-> st.top, stack |-> st]
  ELSE [some |-> TRUE, frame |-> st.top,
        stack |-> [stack |-> SubSeq(st.stack, 1, Len(st.stack) - 1),
                   top |-> st.stack[Len(st.stack)]]]

\* ----------------------------------------------------------- parse_weight
\* position of the last ':' of s, 0 when there is none (str::rsplit_once)
LastColon(s) ==
  IF \E i \in 1..Len(s) : s[i] = ":"
  THEN CHOOSE i \in 1..Len(s) : s[i] = ":" /\ \A j \in (i + 1)..Len(s) : s[j] # ":"
  ELSE 0

NoWeightError == [specifier |-> <<>>, index |-> 0, parse_error |-> "None"]

\* parse_weight with the tolerant flag looked at before the sign of the weight
parse_weight_tolerant_first(maybe_weighted, ignore_invalid_weight_literals) ==
  LET colon == LastColon(maybe_weighted)
      text == SubSeq(maybe_weighted, 1, colon - 1)
      weight_text == SubSeq(maybe_weighted, colon + 1, Len(maybe_weighted))
      maybe_weight == ParseFloat(weight_text)
  IN  IF colon = 0
      THEN [ok |-> TRUE, text |-> maybe_weighted, weight |-> 1, err |-> NoWeightError]
      ELSE IF maybe_weight.ok /\ maybe_weight.value >= 0
      THEN [ok |-> TRUE, text |-> text, weight |-> maybe_weight.value, err |-> NoWeightError]
      ELSE IF ignore_invalid_weight_literals
      THEN [ok |-> TRUE, text |-> maybe_weighted, weight |-> 1, err |-> NoWeightError]
      ELSE [ok |-> FALSE, text |-> <<>>, weight |-> 0,
            err |-> [specifier |-> weight_text, index |-> StrLen(text) + 1,
                     parse_error |-> IF maybe_weight.ok THEN "NegativeWeight"
                                     ELSE "FloatParse"]]

\* parse_weight whose tolerant fallback keeps only the text before the colon
parse_weight_tolerant_strips(maybe_weighted, ignore_invalid_weight_literals) ==
  LET colon == LastColon(maybe_weighted)
      text == SubSeq(maybe_weighted, 1, colon - 1)
      weight_text == SubSeq(maybe_weighted, colon + 1, Len(maybe_weighted))
      maybe_weight == ParseFloat(weight_text)
  IN  IF colon = 0
      THEN [ok |-> TRUE, text |-> maybe_weighted, weight |-> 1, err |-> NoWeightError]
      ELSE IF maybe_weight.ok /\ maybe_weight.value >= 0
      THEN [ok |-> TRUE, text |-> text, weight |-> maybe_weight.value, err |-> NoWeightError]
      ELSE IF maybe_weight.ok
      THEN [ok |-> FALSE, text |-> <<>>, weight |-> 0,
            err |-> [specifier |-> weight_text, index |-> StrLen(text) + 1,
                     parse_error |-> "NegativeWeight"]]
      ELSE IF ignore_invalid_weight_literals
      THEN [ok |-> TRUE, text |-> text, weight |-> 1, err |-> NoWeightError]
      ELSE [ok |-> FALSE, text |-> <<>>, weight |-> 0,
            err |-> [specifier |-> weight_text, index |-> StrLen(text) + 1,
                     parse_error |-> "FloatParse"]]

\* position of the first ':' of s, 0 when there is none (str::split_once)
FirstColon(s) ==
  IF \E i \in 1..Len(s) : s[i] = ":"
  THEN CHOOSE i \in 1..Len(s) : s[i] = ":" /\ \A j \in 1..(i - 1) : s[j] # ":"
  ELSE 0

\* parse_weight splitting at the first colon
parse_weight_first_colon(maybe_weighted, ignore_invalid_weight_literals) ==
  LET colon == FirstColon(maybe_weighted)
      text == SubSeq(maybe_weighted, 1, colon - 1)
      weight_text == SubSeq(maybe_weighted, colon + 1, Len(maybe_weighted))
      maybe_weight == ParseFloat(weight_text)
  IN  IF colon = 0
      THEN [ok |-> TRUE, text |-> maybe_weighted, weight |-> 1, err |-> NoWeightError]
      ELSE IF maybe_weight.ok /\ maybe_weight.value >= 0
      THEN [ok |-> TRUE, text |-> text, weight |-> maybe_weight.value, err |-> NoWeightError]
      ELSE IF maybe_weight.ok
      THEN [ok |-> FALSE, text |-> <<>>, weight |-> 0,
            err |-> [specifier |-> weight_text, index |-> StrLen(text) + 1,
                     parse_error |-> "NegativeWeight"]]
      ELSE IF ignore_invalid_weight_literals
      THEN [ok |-> TRUE, text |-> maybe_weighted, weight |-> 1, err |-> NoWeightError]
      ELSE [ok |-> FALSE, text |-> <<>>, weight |-> 0,
            err |-> [specifier |-> weight_text, index |-> StrLen(text) + 1,
                     parse_error |-> "FloatParse"]]

\* parse_weight : ok with (text, weight), or a ParseWeightError
parse_weight(maybe_weighted, ignore_invalid_weight_literals) ==
  LET colon == LastColon(maybe_weighted)
      text == SubSeq(maybe_weighted, 1, colon - 1)
      weight_text == SubSeq(maybe_weighted, colon + 1, Len(maybe_weighted))
      maybe_weight == ParseFloat(weight_text)
  IN  IF colon = 0
      THEN [ok |-> TRUE, text |-> maybe_weighted, weight |-> 1, err |-> NoWeightError]
      ELSE IF maybe_weight.ok /\ maybe_weight.value >= 0
      THEN [ok |-> TRUE, text |-> text, weight |-> maybe_weight.value, err |-> NoWeightError]
      ELSE IF maybe_weight.ok
      THEN [ok |-> FALSE, text |-> <<>>, weight |-> 0,
            err |-> [specifier |-> weight_text, index |-> StrLen(text) + 1,
                     parse_error |-> "NegativeWeight"]]
      ELSE IF ignore_invalid_weight_literals
      THEN [ok |-> TRUE, text |-> maybe_weighted, weight |-> 1, err |-> NoWeightError]
      ELSE [ok |-> FALSE, text |-> <<>>, weight |-> 0,
            err |-> [specifier |-> weight_text, index |-> StrLen(text) + 1,
                     parse_error |-> "FloatParse"]]

\* --------------------------------------------------------------- generate
NoResult ==
  [kind |-> "None", text |-> <<>>, offset |-> 0, specifier |-> <<>>, cause |-> "None"]

\* Ok(String)
Ok(text) ==
  [kind |-> "Ok", text |-> text, offset |-> 0, specifier |-> <<>>, cause |-> "None"]

\* Err(ParseError::UnexpectedClosingBrace(n)), Err(ParseError::UnclosedBrace(n))
BraceError(kind, n) ==
  [kind |-> kind, text |-> <<>>, offset |-> n, specifier |-> <<>>, cause |-> "None"]

\* Err(ParseError::InvalidWeightSpecifier(global_index + err.index, err))
WeightError(global_index, err) ==
  [kind |-> "InvalidWeightSpecifier", text |-> <<>>, offset |-> global_index + err.index,
   specifier |-> err.specifier, cause |-> err.parse_error]

\* prompt.find(&['|', '{', '}']) as a character position, 0 for None
Find(s) ==
  IF \E i \in 1..Len(s) : s[i] \in Control
  THEN CHOOSE i \in 1..Len(s) : s[i] \in Control /\ \A j \in 1..(i - 1) : s[j] \notin Control
  ELSE 0

\* the literal text before the next control character (the rest, without one)
Pre(s) == IF Find(s) = 0 THEN s ELSE SubSeq(s, 1, Find(s) - 1)

\* the control character the next iteration of the loop handles
NextControl(s) == IF Find(s) = 0 THEN "end" ELSE s[Find(s)]

\* the locals of generate at its first line, with no Frame::choose call made;
\* rng counts the draws taken so far from the random source it is handed
generate_entry(template, rng) ==
  [prompt |-> template, global_index |-> 0, stack |-> Stack_new,
   result |-> NoResult, call |-> <<>>, rng |-> rng]

\* parse_weight_and_apply parsing the whole text of the open choice, resolved
\* groups included, instead of the literal segment
parse_weight_and_apply_resolved(text, st, global_index, opts) ==
  LET pw == parse_weight(st.top.top.text \o text, opts.ignore_invalid_weight_literals)
  IN  IF pw.ok
      THEN [ok |-> TRUE, err |-> NoResult,
            stack |-> [st EXCEPT !.top.top.text = pw.text,
                                 !.top.top.weight = pw.weight]]
      ELSE [ok |-> FALSE, err |-> WeightError(global_index, pw.err), stack |-> st]

\* the closure parse_weight_and_apply of generate
parse_weight_and_apply(text, st, global_index, opts) ==
  LET pw == parse_weight(text, opts.ignore_invalid_weight_literals)
  IN  IF pw.ok
      THEN [ok |-> TRUE, err |-> NoResult,
            stack |-> [st EXCEPT !.top.top.text = st.top.top.text \o pw.text,
                                 !.top.top.weight = pw.weight]]
      ELSE [ok |-> FALSE, err |-> WeightError(global_index, pw.err), stack |-> st]

\* global_index += index, with index the byte offset str::find returns
Advance(g) == g.global_index + StrLen(Pre(g.prompt))

\* prompt = post : the control character is left in the unconsumed suffix
Rest_keeps_control(g) == SubSeq(g.prompt, Find(g.prompt), Len(g.prompt))

\* prompt = &post[1..]
Rest(g) == SubSeq(g.prompt, Find(g.prompt) + 1, Len(g.prompt))

\* one iteration of the loop on '|'
OnPipe(g, opts) ==
  LET gi == Advance(g)
      applied == parse_weight_and_apply(Pre(g.prompt), g.stack, gi, opts)
  IN  IF ~applied.ok
      THEN [g EXCEPT !.global_index = gi, !.result = applied.err]
      ELSE [g EXCEPT !.global_index = gi, !.prompt = Rest(g),
                     !.stack = [applied.stack EXCEPT
                                  !.top = Frame_push(applied.stack.top, Choice_new)]]

\* the '{' branch finalizing the text before the brace as '|' does
OnOpen_parses(g) ==
  LET gi == Advance(g)
      applied == parse_weight_and_apply(Pre(g.prompt), g.stack, gi,
                    [choice_guidance |-> "None",
                     ignore_invalid_weight_literals |-> FALSE])
  IN  IF ~applied.ok
      THEN [g EXCEPT !.global_index = gi, !.result = applied.err]
      ELSE [g EXCEPT !.global_index = gi, !.prompt = Rest(g),
                     !.stack = Stack_push(applied.stack, gi)]

\* one iteration of the loop on '{'
OnOpen(g) ==
  LET gi == Advance(g)
  IN  [g EXCEPT !.global_index = gi, !.prompt = Rest(g),
                !.stack = Stack_push(
                   [g.stack EXCEPT !.top.top.text = g.stack.top.top.text \o Pre(g.prompt)],
                   gi)]

\* one iteration of the loop on '}', k the draw Frame::choose takes
OnClose(g, k, opts) ==
  LET gi == Advance(g)
      applied == parse_weight_and_apply(Pre(g.prompt), g.stack, gi, opts)
      popped == Stack_pop(applied.stack)
      choice == Frame_choose(popped.frame, k, opts.choice_guidance)
  IN  IF ~applied.ok
      THEN [g EXCEPT !.global_index = gi, !.result = applied.err]
      ELSE IF ~popped.some
      THEN [g EXCEPT !.global_index = gi,
                     !.result = BraceError("UnexpectedClosingBrace", gi)]
      ELSE [g EXCEPT !.global_index = gi, !.prompt = Rest(g),
                     !.stack = [popped.stack EXCEPT
                                  !.top.top.text = popped.stack.top.top.text \o choice.text],
                     !.call = <<[frame |-> popped.frame, choice |-> choice]>>,
                     !.rng = g.rng + DrawsTaken(opts.choice_guidance)]

\* the lines after the loop with the unclosed-brace check made before the
\* weight specifier of the last segment is finalized
OnEnd_brace_first(g, k, opts) ==
  LET applied == parse_weight_and_apply(g.prompt, g.stack, g.global_index, opts)
      choice == Frame_choose(applied.stack.top, k, opts.choice_guidance)
  IN  IF g.stack.stack # <<>>
      THEN [g EXCEPT !.result = BraceError("UnclosedBrace", g.stack.top.start_index)]
      ELSE IF ~applied.ok
      THEN [g EXCEPT !.result = applied.err]
      ELSE [g EXCEPT !.stack = applied.stack, !.result = Ok(choice.text),
                     !.call = <<[frame |-> applied.stack.top, choice |-> choice]>>,
                     !.rng = g.rng + DrawsTaken(opts.choice_guidance)]

\* the lines after the loop, k the draw Frame::choose takes
OnEnd(g, k, opts) ==
  LET applied == parse_weight_and_apply(g.prompt, g.stack, g.global_index, opts)
      choice == Frame_choose(applied.stack.top, k, opts.choice_guidance)
  IN  IF ~applied.ok
      THEN [g EXCEPT !.result = applied.err]
      ELSE IF applied.stack.stack # <<>>
      THEN [g EXCEPT !.result = BraceError("UnclosedBrace", applied.stack.top.start_index)]
      ELSE [g EXCEPT !.stack = applied.stack, !.result = Ok(choice.text),
                     !.call = <<[frame |-> applied.stack.top, choice |-> choice]>>,
                     !.rng = g.rng + DrawsTaken(opts.choice_guidance)]

\* ------------------------------------------------------------------ panics
\* the thread panicked inside generate
Panic ==
  [kind |-> "Panic", text |-> <<>>, offset |-> 0, specifier |-> <<>>, cause |-> "None"]

\* a character index (chars().position()) taken for the byte index
FindByte_char_index(s) == Find(s) - 1

\* the byte index `index` that prompt.find returns in Some
FindByte(s) == StrLen(Pre(s))

RECURSIVE CharsIn(_, _, _, _)
\* the number of characters of s that make up its first b bytes, counted from
\* i characters making up `bytes` bytes; -1 when b falls inside a character or
\* beyond the end of s
CharsIn(s, i, bytes, b) ==
  IF bytes = b THEN i
  ELSE IF bytes > b \/ i = Len(s) THEN 0 - 1
  ELSE CharsIn(s, i + 1, bytes + ByteLen(s[i + 1]), b)

\* str::is_char_boundary : the byte offset b of s lies between two characters
\* of s, or at one of its ends
is_char_boundary(s, b) == CharsIn(s, 0, 0, b) # 0 - 1

\* &s[b..] for a byte offset b on a character boundary of s
SliceFrom(s, b) == SubSeq(s, CharsIn(s, 0, 0, b) + 1, Len(s))

\* the iteration of the loop from g, whose branch leaves generate in `next`,
\* panics: in a slice off a character boundary, in the unreachable!() arm, or
\* in pop().unwrap() / swap_remove(0) on an empty list
Panics(g, next, opts) ==
  LET found == Find(g.prompt)
      index == FindByte(g.prompt)
      post == SliceFrom(g.prompt, index)
  IN  \/ /\ found # 0
         /\ \/ ~is_char_boundary(g.prompt, index)
            \/ post # <<>> /\ post[1] \notin Control
            \/ next.result.kind = "None" /\ ~is_char_boundary(post, 1)
      \/ /\ opts.choice_guidance # "None"
         /\ next.result.kind \in {"None", "Ok"}
         /\ next.call # <<>>
         /\ (found = 0 \/ g.prompt[found] = "}")
         /\ Options(next.call[1].frame) = <<>>

\* the outcome of an iteration: the panic, or what its branch leaves
OrPanic(g, next, opts) ==
  IF Panics(g, next, opts) THEN [g EXCEPT !.result = Panic] ELSE next

\* ------------------------------------------------------------- templates
Alphabet == {"a", "U+00E9", ":", "1", "-", "{", "|", "}"}

\* every string of at most MaxLen characters of Alphabet
CharTemplates == UNION {[1..n -> Alphabet] : n \in 0..MaxLen}

\* the alternatives of the enumerated groups: a, bb:3, e-acute:0, :0, c:1
AltSet ==
  {<<"a">>, <<"b", "b", ":", "3">>, <<"U+00E9", ":", "0">>, <<":", "0">>, <<"c", ":", "1">>}

RECURSIVE JoinAlts(_)
JoinAlts(alts) ==
  IF Len(alts) = 1 THEN alts[1]
  ELSE JoinAlts(SubSeq(alts, 1, Len(alts) - 1)) \o <<"|">> \o alts[Len(alts)]

\* every group { alt | ... | alt } of at most MaxAlts alternatives of AltSet
GroupTemplates ==
  {<<"{">> \o JoinAlts(alts) \o <<"}">> : alts \in UNION {[1..n -> AltSet] : n \in 1..MaxAlts}}

\* the templates of the documentation of Args and of its examples of errors
Examples ==
  { <<"a", "{", "b", "|", "c", "}", "d">>,
    <<"{", "b", "a", "l", "l", ":", "1", "|", "b", "o", "x", ":", "3", "}">>,
    <<"a", " ", "r", "a", "n", "d", "o", "m", " ", "{", "p", "r", "o", "m", "p", "t", "|",
      "w", "o", "r", "d", "}">>,
    <<"t", "h", "i", "s", " ", "{", "{", "l", "a", "r", "g", "e", " ", "|", "}", "c", "a",
      "k", "e", "|", "{", "l", "o", "u", "d", "|", "t", "i", "n", "y", "}", " ", "b", "o",
      "a", "t", "}", " ", "i", "s", " ", "n", "o", "t", " ", "v", "e", "r", "y", " ", "n",
      "i", "c", "e">>,
    <<"t", "h", "i", "s", " ", "{", "{", "l", "a", "r", "g", "e", " ", "|", "}", "c", "a",
      "k", "e", "|", "{", "l", "o", "u", "d", "|", "t", "i", "n", "y", "}", " ", "b", "o",
      "a", "t", "}", " ", "i", "s", " ", "n", "o", "t", " ", "v", "e", "r", "y", " ", "n",
      "i", "c", "e", "}">>,
    <<"a", " ", "{", "b", "|", "c">>,
    <<"{", "a", ":", "x", "|", "b", "}">>,
    <<"{", "a", ":", "-", "1", "|", "b", "}">> }

\* templates with a colon before an inner brace, with several colons, and with a
\* bad weight specifier next to a bad brace:
\*   {a:x{b}|c}
\*   {a:-1{b}|c}
\*   :{1|a}
\*   {a:1:3|b}
\*   {a:3:x|b}
\*   a:3:1
\*   a:x}
\*   {a:x
\*   a|{b:x
\*   }a:x|
\*   {e-acute|a:x}}
EdgeTemplates ==
  { <<"{", "a", ":", "x", "{", "b", "}", "|", "c", "}">>,
    <<"{", "a", ":", "-", "1", "{", "b", "}", "|", "c", "}">>,
    <<":", "{", "1", "|", "a", "}">>,
    <<"{", "a", ":", "1", ":", "3", "|", "b", "}">>,
    <<"{", "a", ":", "3", ":", "x", "|", "b", "}">>,
    <<"a", ":", "3", ":", "1">>,
    <<"a", ":", "x", "}">>,
    <<"{", "a", ":", "x">>,
    <<"a", "|", "{", "b", ":", "x">>,
    <<"}", "a", ":", "x", "|">>,
    <<"{", "U+00E9", "|", "a", ":", "x", "}", "}">>,
    <<"U+00E9", "{", "}", "|">> }

Templates == CharTemplates \cup GroupTemplates \cup Examples \cup EdgeTemplates

\* Option<ChoiceGuidance>
Guidances == {"None", "Shortest", "Longest", "LeastLikely", "MostLikely"}

\* ------------------------------------------------------------ the program
VARIABLES
  args,          \* Args: prompt, num, choice_guidance, ignore_invalid_weight_literals
  pc,            \* "scan": in the loop of generate; "returned": generate returned to main;
                 \* "exit": main is over
  prompt,        \* generate: the unconsumed suffix
  global_index,  \* generate: the offset it reports errors at
  stack,         \* generate: the Stack
  result,        \* generate: its return value, NoResult while it runs
  call,          \* the last call of Frame::choose: <<>>, or <<[frame, choice]>>
  rng,           \* the random source: how many draws were taken from it
  out            \* the lines main wrote

vars == <<args, pc, prompt, global_index, stack, result, call, rng, out>>

\* GenerationOptions as main builds it
options ==
  [choice_guidance |-> args.choice_guidance,
   ignore_invalid_weight_literals |-> args.ignore_invalid_weight_literals]

\* the locals of the running generate as one record
G ==
  [prompt |-> prompt, global_index |-> global_index, stack |-> stack,
   result |-> result, call |-> call, rng |-> rng]

\* the next state of generate is g
Becomes(g) ==
  /\ prompt' = g.prompt
  /\ global_index' = g.global_index
  /\ stack' = g.stack
  /\ result' = g.result
  /\ call' = g.call
  /\ rng' = g.rng
  /\ pc' = IF g.result.kind = "None" THEN "scan" ELSE "returned"
  /\ UNCHANGED <<args, out>>

\* the values the draw of a Frame::choose call can take: k/RngDen in [0,1)
Draws == 0..(RngDen - 1)

InitWith(templates) ==
  /\ args \in [prompt : templates, num : {MaxNum}, choice_guidance : Guidances,
               ignore_invalid_weight_literals : BOOLEAN]
  /\ pc = "scan"
  /\ prompt = args.prompt
  /\ global_index = 0
  /\ stack = Stack_new
  /\ result = NoResult
  /\ call = <<>>
  /\ rng = 0
  /\ out = <<>>

Init == InitWith(Templates)

generate_pipe ==
  /\ pc = "scan"
  /\ NextControl(prompt) = "|"
  /\ Becomes(OrPanic(G, OnPipe(G, options), options))

generate_open ==
  /\ pc = "scan"
  /\ NextControl(prompt) = "{"
  /\ Becomes(OrPanic(G, OnOpen(G), options))

generate_close ==
  /\ pc = "scan"
  /\ NextControl(prompt) = "}"
  /\ \E k \in Draws : Becomes(OrPanic(G, OnClose(G, k, options), options))

generate_end ==
  /\ pc = "scan"
  /\ NextControl(prompt) = "end"
  /\ \E k \in Draws : Becomes(OrPanic(G, OnEnd(G, k, options), options))

\* main: generate returned Ok, the prompt is written, and generate is called
\* again until num prompts are out
main_write ==
  /\ pc = "returned"
  /\ result.kind = "Ok"
  /\ out' = Append(out, result.text)
  /\ IF Len(out') < args.num
     THEN LET g == generate_entry(args.prompt, rng)
          IN  /\ pc' = "scan"
              /\ prompt' = g.prompt
              /\ global_index' = g.global_index
              /\ stack' = g.stack
              /\ result' = g.result
              /\ call' = g.call
     ELSE /\ pc' = "exit"
          /\ UNCHANGED <<prompt, global_index, stack, result, call>>
  /\ UNCHANGED <<args, rng>>

\* main: generate returned Err, `?` leaves the loop and the error is printed
main_fail ==
  /\ pc = "returned"
  /\ result.kind \notin {"Ok", "None"}
  /\ pc' = "exit"
  /\ UNCHANGED <<args, prompt, global_index, stack, result, call, rng, out>>

Next ==
  \/ generate_pipe
  \/ generate_open
  \/ generate_close
  \/ generate_end
  \/ main_write
  \/ main_fail

Spec == Init /\ [][Next]_vars

\* ------------------------------------------------- runs of generate as a whole
\* one step of generate from g with the draw k (g itself once it returned)
StepOf(g, k, opts) ==
  IF g.result.kind # "None" THEN g
  ELSE OrPanic(g, CASE NextControl(g.prompt) = "|" -> OnPipe(g, opts)
                    [] NextControl(g.prompt) = "{" -> OnOpen(g)
                    [] NextControl(g.prompt) = "}" -> OnClose(g, k, opts)
                    [] OTHER -> OnEnd(g, k, opts),
               opts)

\* the draws the step from g can be handed: only the steps on '}' and at the
\* end call Frame::choose
DrawsAt(g) ==
  IF g.result.kind = "None" /\ NextControl(g.prompt) \in {"}", "end"} THEN Draws ELSE {0}

RECURSIVE RunAll(_, _)
\* the states generate can return in from the states gs, over every draw
RunAll(gs, opts) ==
  IF \A g \in gs : g.result.kind # "None" THEN gs
  ELSE RunAll(UNION {{StepOf(g, k, opts) : k \in DrawsAt(g)} : g \in gs}, opts)

\* every value generate can return from the state g
AllResults(g, opts) == {r.result : r \in RunAll({g}, opts)}

\* generate was just entered
AtEntry == pc = "scan" /\ G = generate_entry(args.prompt, rng)

\* main is about to call generate for the first time
AtFirstEntry == AtEntry /\ out = <<>>

\* ------------------------------------------------------ reference expansion
\* The template as items: a raw character of the source, or the text a brace
\* group was replaced by.  A replaced group is opaque: its text is never read
\* again as a control character, a colon or a number.
RawItems(t) == [i \in 1..Len(t) |-> [res |-> FALSE, text |-> <<t[i]>>]]

IsRaw(item, c) == ~item.res /\ item.text = <<c>>

RECURSIVE Flatten(_)
Flatten(items) == IF items = <<>> THEN <<>> ELSE items[1].text \o Flatten(Tail(items))

\* the raw literal run an alternative ends with
TrailingRun(items) ==
  LET from == IF \E i \in 1..Len(items) : items[i].res
              THEN 1 + CHOOSE i \in 1..Len(items) :
                         items[i].res /\ \A j \in (i + 1)..Len(items) : ~items[j].res
              ELSE 1
  IN  SubSeq(items, from, Len(items))

\* an alternative with its weight specifier stripped: the specifier is the last
\* colon of the trailing literal run and what follows it; well formed when
\* there is none or it is a positive number
RefAlternative(items) ==
  LET run == Flatten(TrailingRun(items))
      colon == LastColon(run)
      number == ParseFloat(SubSeq(run, colon + 1, Len(run)))
      whole == Flatten(items)
  IN  IF colon = 0 THEN [ok |-> TRUE, text |-> whole]
      ELSE [ok |-> number.ok /\ number.value > 0,
            text |-> SubSeq(whole, 1, Len(whole) - (Len(run) - colon + 1))]

RECURSIVE SplitAlternatives(_)
\* the '|'-separated alternatives of a run of items without raw braces
SplitAlternatives(items) ==
  IF \E i \in 1..Len(items) : IsRaw(items[i], "|")
  THEN LET i == CHOOSE i \in 1..Len(items) :
                  IsRaw(items[i], "|") /\ \A j \in 1..(i - 1) : ~IsRaw(items[j], "|")
       IN  {RefAlternative(SubSeq(items, 1, i - 1))}
             \cup SplitAlternatives(SubSeq(items, i + 1, Len(items)))
  ELSE {RefAlternative(items)}

RECURSIVE RefExpandItems(_)
\* innermost first: the first raw '}' closes the group opened by the last raw
\* '{' before it; the group is replaced by one of its alternatives.  The result
\* is [ok, texts]: ok when braces balance and every specifier is well formed.
RefExpandItems(items) ==
  IF \E j \in 1..Len(items) : IsRaw(items[j], "}")
  THEN LET j == CHOOSE j \in 1..Len(items) :
                  IsRaw(items[j], "}") /\ \A h \in 1..(j - 1) : ~IsRaw(items[h], "}")
       IN  IF ~\E i \in 1..(j - 1) : IsRaw(items[i], "{")
           THEN [ok |-> FALSE, texts |-> {}]
           ELSE LET i == CHOOSE i \in 1..(j - 1) :
                           IsRaw(items[i], "{") /\ \A h \in (i + 1)..(j - 1) : ~IsRaw(items[h], "{")
                    alts == SplitAlternatives(SubSeq(items, i + 1, j - 1))
                    subs == {RefExpandItems(SubSeq(items, 1, i - 1)
                                             \o <<[res |-> TRUE, text |-> a.text]>>
                                             \o SubSeq(items, j + 1, Len(items))) : a \in alts}
                IN  [ok |-> (\A a \in alts : a.ok) /\ (\A r \in subs : r.ok),
                     texts |-> UNION {r.texts : r \in subs}]
  ELSE IF \E i \in 1..Len(items) : IsRaw(items[i], "{")
  THEN [ok |-> FALSE, texts |-> {}]
  ELSE LET alts == SplitAlternatives(items)
       IN  [ok |-> \A a \in alts : a.ok, texts |-> {a.text : a \in alts}]

RefExpand(template) == RefExpandItems(RawItems(template))

Template_abcd == <<"a", "{", "b", "|", "c", "}", "d">>

\* C1: in weighted-random mode, for a template that conforms to the grammar
\* with all weights positive, the values generate can return are exactly the
\* strings of the reference expansion: at entry the set of all results over
\* every draw equals it, and every run returns Ok with one of its strings;
\* "a{b|c}d" returns "abd" or "acd" and nothing else.
C1_RandomModeRefinesReference ==
  (args.choice_guidance = "None" /\ (AtEntry \/ pc = "returned")) =>
     LET ref == RefExpand(args.prompt)
     IN  ref.ok =>
           /\ AtEntry => AllResults(G, options) = {Ok(t) : t \in ref.texts}
           /\ pc = "returned" => result.kind = "Ok" /\ result.text \in ref.texts
           /\ (AtEntry /\ args.prompt = Template_abcd) =>
                AllResults(G, options) = {Ok(<<"a", "b", "d">>), Ok(<<"a", "c", "d">>)}

\* C1 witness: "a{b|c}d" returned "acd" in weighted-random mode
C1_Witness ==
  /\ args.prompt = Template_abcd
  /\ args.choice_guidance = "None"
  /\ pc = "returned"
  /\ result = Ok(<<"a", "c", "d">>)

\* ------------------------------------------------ offsets in the template
\* opening braces minus closing braces among the first n characters of t
Depth(t, n) ==
  Cardinality({i \in 1..n : t[i] = "{"}) - Cardinality({i \in 1..n : t[i] = "}"})

\* position of the first '}' of t scanned while no group is open
UnmatchedClose(t) ==
  CHOOSE i \in 1..Len(t) :
    /\ t[i] = "}" /\ Depth(t, i - 1) = 0
    /\ \A j \in 1..(i - 1) : t[j] = "}" => Depth(t, j - 1) > 0

\* the '{' at position i of t has no matching '}'
Unmatched(t, i) ==
  t[i] = "{" /\ \A j \in (i + 1)..Len(t) : Depth(t, j) - Depth(t, i) >= 0

\* position of the innermost (last) unmatched '{' of t
InnermostUnmatchedOpen(t) ==
  CHOOSE i \in 1..Len(t) : Unmatched(t, i) /\ \A j \in (i + 1)..Len(t) : ~Unmatched(t, j)

\* character offset in the template of the segment the failed step was finalizing
SegmentStart == Len(args.prompt) - Len(prompt)

\* C2 (as claimed; the code reports another offset): generate fails with
\* UnexpectedClosingBrace(n) only with n the character offset in the template
\* of the '}' scanned while no nested frame was open.
C2_UnexpectedClosingBraceAtCharOffset ==
  (pc = "returned" /\ result.kind = "UnexpectedClosingBrace") =>
     result.offset = UnmatchedClose(args.prompt) - 1

\* C3 (as claimed; the code reports another offset): generate fails with
\* UnclosedBrace(n) only with n the character offset in the template of the
\* innermost unmatched '{'.
C3_UnclosedBraceAtCharOffset ==
  (pc = "returned" /\ result.kind = "UnclosedBrace") =>
     result.offset = InnermostUnmatchedOpen(args.prompt) - 1

\* C4 (as claimed; the code reports another offset): the offset carried by
\* InvalidWeightSpecifier is the segment's start offset plus the number of
\* characters before its last colon plus one: the offset of the first
\* character after that colon.
C4_InvalidWeightAtCharAfterColon ==
  (pc = "returned" /\ result.kind = "InvalidWeightSpecifier") =>
     result.offset = SegmentStart + (LastColon(Pre(prompt)) - 1) + 1

\* --------------------------------------------------- finalized segments
\* the step generate takes next finalizes a segment: at '|', at '}', at the end
Finalizes == pc = "scan" /\ NextControl(prompt) # "{"

\* the text after the last colon of a segment, parsed
Suffix(segment) ==
  ParseFloat(SubSeq(segment, LastColon(segment) + 1, Len(segment)))

NegativeSuffix(segment) ==
  LastColon(segment) # 0 /\ Suffix(segment).ok /\ Suffix(segment).value < 0

UnparsableSuffix(segment) == LastColon(segment) # 0 /\ ~Suffix(segment).ok

Template_negative == <<"{", "a", ":", "-", "1", "|", "b", "}">>

Template_unparsable == <<"{", "a", ":", "x", "|", "b", "}">>

\* C5: a finalized segment whose text after the last colon parses as a negative
\* number makes generate fail with InvalidWeightSpecifier of the
\* negative-weight kind, whatever the tolerant flag; "{a:-1|b}" fails so on
\* every run.
C5_NegativeWeightAlwaysFails ==
  /\ [][(Finalizes /\ NegativeSuffix(Pre(prompt))) =>
          /\ pc' = "returned"
          /\ result'.kind = "InvalidWeightSpecifier"
          /\ result'.cause = "NegativeWeight"]_vars
  /\ []((AtEntry /\ args.prompt = Template_negative) =>
          \A r \in AllResults(G, options) :
             r.kind = "InvalidWeightSpecifier" /\ r.cause = "NegativeWeight")

\* C5 witness: with the tolerant flag on, generate returned the negative-weight error
C5_Witness ==
  /\ args.ignore_invalid_weight_literals
  /\ pc = "returned"
  /\ result.kind = "InvalidWeightSpecifier"
  /\ result.cause = "NegativeWeight"
  /\ result.specifier = <<"-", "1">>

\* the choice the step from the unprimed state finalized, read in the primed
\* state: the last of the completed choices after '|', the open choice of the
\* frame handed to Frame::choose after '}' and at the end
FinalizedAfter(control, stack_after, call_after) ==
  IF control = "|"
  THEN stack_after.top.choices[Len(stack_after.top.choices)]
  ELSE call_after[1].frame.top

\* C6: for a finalized segment with a colon whose suffix is not parsable as a
\* number: with the tolerant flag off generate fails with
\* InvalidWeightSpecifier; with it on the choice gets the whole segment, colon
\* and suffix included, appended to its text, and weight 1 (unless the step
\* then fails on the brace); "{a:x|b}" returns "a:x" or "b".
C6_UnparsableWeight ==
  /\ [][(Finalizes /\ UnparsableSuffix(Pre(prompt))) =>
          IF ~args.ignore_invalid_weight_literals
          THEN /\ pc' = "returned"
               /\ result'.kind = "InvalidWeightSpecifier"
               /\ result'.cause = "FloatParse"
          ELSE \/ result'.kind \in {"UnexpectedClosingBrace", "UnclosedBrace"}
               \/ FinalizedAfter(NextControl(prompt), stack', call') =
                    [text |-> stack.top.top.text \o Pre(prompt), weight |-> 1]]_vars
  /\ []((AtEntry /\ args.prompt = Template_unparsable) =>
          IF args.ignore_invalid_weight_literals
          THEN {r.text : r \in AllResults(G, options)} \subseteq {<<"a", ":", "x">>, <<"b">>}
               /\ (args.choice_guidance = "None" =>
                     AllResults(G, options) = {Ok(<<"a", ":", "x">>), Ok(<<"b">>)})
          ELSE \A r \in AllResults(G, options) : r.kind = "InvalidWeightSpecifier")

\* C6 witness: with the tolerant flag on, "{a:x|b}" returned "a:x"
C6_Witness ==
  /\ args.prompt = Template_unparsable
  /\ args.ignore_invalid_weight_literals
  /\ pc = "returned"
  /\ result = Ok(<<"a", ":", "x">>)

\* --------------------------------------------- templates without control
NoControl(t) == \A i \in 1..Len(t) : t[i] \notin Control

\* C7 (as claimed; it fails): a template without '|', '{', '}' makes generate
\* succeed and return the template unchanged, or with the ':<number>' after
\* its last colon stripped.
C7_NoControlAlwaysSucceeds ==
  (pc = "returned" /\ NoControl(args.prompt)) =>
     /\ result.kind = "Ok"
     /\ \/ result.text = args.prompt
        \/ /\ LastColon(args.prompt) # 0
           /\ Suffix(args.prompt).ok
           /\ result.text = SubSeq(args.prompt, 1, LastColon(args.prompt) - 1)

\* C7 (amended): for a template without '|', '{', '}', in every selection mode:
\* without a colon generate returns the template unchanged; when the text
\* after the last colon is a non-negative number it returns the text before
\* that colon; when it is not parsable as a number it returns the template
\* unchanged with the tolerant flag on and fails with InvalidWeightSpecifier
\* with it off; when it is a negative number it fails with
\* InvalidWeightSpecifier.
C7_NoControlAmended ==
  (pc = "returned" /\ NoControl(args.prompt)) =>
     LET t == args.prompt
     IN  IF LastColon(t) = 0 THEN result = Ok(t)
         ELSE IF Suffix(t).ok /\ Suffix(t).value >= 0
         THEN result = Ok(SubSeq(t, 1, LastColon(t) - 1))
         ELSE IF Suffix(t).ok
         THEN result.kind = "InvalidWeightSpecifier" /\ result.cause = "NegativeWeight"
         ELSE IF args.ignore_invalid_weight_literals THEN result = Ok(t)
         ELSE result.kind = "InvalidWeightSpecifier" /\ result.cause = "FloatParse"

\* C7 witness: "a:1" returned "a" under a guidance
C7_Witness ==
  /\ args.prompt = <<"a", ":", "1">>
  /\ args.choice_guidance = "MostLikely"
  /\ pc = "returned"
  /\ result = Ok(<<"a">>)

\* ----------------------------------------------------- weighted selection
\* w_1 + ... + w_i over the options of a frame
Cumulative(frame, i) == SumWeights(SubSeq(Options(frame), 1, i))

\* the first position whose cumulative weight reaches k/RngDen of the sum, the
\* last position if none does
FirstReaching(frame, k) ==
  LET n == Len(Options(frame))
      S == Cumulative(frame, n)
      reaching == {i \in 1..n : Cumulative(frame, i) * RngDen >= k * S}
  IN  IF reaching = {} THEN n
      ELSE CHOOSE i \in reaching : \A j \in reaching : i <= j

\* how many of the RngDen draws return position i
DrawsReturning(frame, i) == Cardinality({k \in Draws : WeightedIndex(frame, k) = i})

Ball == [text |-> <<"b", "a", "l", "l">>, weight |-> 1]

Box == [text |-> <<"b", "o", "x">>, weight |-> 3]

\* C8: in weighted-random mode, for a frame handed to Frame::choose with weight
\* sum S > 0: for every draw r = k/RngDen the choice returned is the first one
\* whose cumulative weight reaches or exceeds r*S; the choice returned by the
\* call is one of these; the share of the draws that return choice i is w_i/S
\* to within one draw (S*count within S of RngDen*w_i); and for
\* "{ball:1|box:3}" the draws up to 1/4 return "ball" and all others "box".
C8_WeightedChoiceByCumulativeWeight ==
  (args.choice_guidance = "None" /\ call # <<>>) =>
     LET frame == call[1].frame
         n == Len(Options(frame))
         S == Cumulative(frame, n)
     IN  S > 0 =>
           /\ \A k \in Draws :
                Frame_choose(frame, k, "None") = Options(frame)[FirstReaching(frame, k)]
           /\ \E k \in Draws : call[1].choice = Options(frame)[FirstReaching(frame, k)]
           /\ \A i \in 1..n :
                /\ S * DrawsReturning(frame, i) >= RngDen * Options(frame)[i].weight - S
                /\ S * DrawsReturning(frame, i) <= RngDen * Options(frame)[i].weight + S
           /\ Options(frame) = <<Ball, Box>> =>
                \A k \in Draws :
                   Frame_choose(frame, k, "None") = IF 4 * k <= RngDen THEN Ball ELSE Box

\* C8 witness: the group of "{ball:1|box:3}" was closed and "box" was chosen
C8_Witness ==
  /\ args.choice_guidance = "None"
  /\ call # <<>>
  /\ Options(call[1].frame) = <<Ball, Box>>
  /\ call[1].choice = Box

\* ------------------------------------------------------- deterministic modes
\* C9: with a guidance (Shortest, Longest, MostLikely, LeastLikely) no draw is
\* taken from the random source, generate has one possible result whatever
\* the draws would be, and the prompts main writes in its runs on the same
\* template are identical.
C9_GuidanceIsDeterministic ==
  args.choice_guidance # "None" =>
     /\ rng = 0
     /\ AtFirstEntry => Cardinality(AllResults(G, options)) = 1
     /\ \A i \in 1..Len(out) : out[i] = out[1]

\* C9 witness: in Longest mode main wrote "acd" twice for "a{b|c}d"
C9_Witness ==
  /\ args.choice_guidance = "Longest"
  /\ args.prompt = Template_abcd
  /\ out = << <<"a", "c", "d">>, <<"a", "c", "d">> >>

\* positions of the options of minimum / maximum length in characters
MinCharLen(cs) ==
  {i \in 1..Len(cs) : \A j \in 1..Len(cs) : Len(cs[i].text) <= Len(cs[j].text)}

MaxCharLen(cs) ==
  {i \in 1..Len(cs) : \A j \in 1..Len(cs) : Len(cs[i].text) >= Len(cs[j].text)}

\* C10 (as claimed; the code orders by bytes): in Shortest mode a closed frame
\* resolves to the first alternative among those of minimum length in
\* characters, in Longest mode to the last among those of maximum length in
\* characters, so no alternative is shorter than the Shortest result or longer
\* than the Longest result.
C10_ShortestLongestByCharacters ==
  (args.choice_guidance \in {"Shortest", "Longest"} /\ call # <<>>) =>
     LET alts == Options(call[1].frame)
         first_min == CHOOSE i \in MinCharLen(alts) : \A j \in MinCharLen(alts) : i <= j
         last_max == CHOOSE i \in MaxCharLen(alts) : \A j \in MaxCharLen(alts) : i >= j
     IN  IF args.choice_guidance = "Shortest"
         THEN /\ call[1].choice = alts[first_min]
              /\ \A j \in 1..Len(alts) : Len(call[1].choice.text) <= Len(alts[j].text)
         ELSE /\ call[1].choice = alts[last_max]
              /\ \A j \in 1..Len(alts) : Len(call[1].choice.text) >= Len(alts[j].text)

\* ------------------------------------------------------ failure of generate
\* what a result says about failure: the error as it is, Ok without its text
Failure(r) == IF r.kind = "Ok" THEN Ok(<<>>) ELSE r

RECURSIVE RunWithoutDraws(_, _)
\* the state generate returns in from g under a guidance, where Frame::choose
\* takes no draw
RunWithoutDraws(g, opts) ==
  IF g.result.kind # "None" THEN g ELSE RunWithoutDraws(StepOf(g, 0, opts), opts)

\* the failures generate can end with on the template of args under the
\* tolerant flag of args, with the given guidance, over every draw it takes
FailuresUnder(guidance) ==
  LET opts == [choice_guidance |-> guidance,
               ignore_invalid_weight_literals |-> args.ignore_invalid_weight_literals]
      g == generate_entry(args.prompt, 0)
  IN  IF DrawsTaken(guidance) = 0
      THEN {Failure(RunWithoutDraws(g, opts).result)}
      ELSE {Failure(r) : r \in AllResults(g, opts)}

\* C11: whether generate fails, and with which error variant, offset and
\* specifier, depends only on the template and the tolerant flag: over every
\* guidance and every draw there is one outcome (success, or one and the same
\* error); a run of main never fails after an earlier run succeeded; and an
\* error carries no text and leaves nothing written.
C11_FailureDependsOnTemplateAndFlag ==
  [](/\ (AtFirstEntry /\ args.choice_guidance = "None") =>
           LET failures == FailuresUnder("None")
           IN  /\ Cardinality(failures) = 1
               /\ \A guidance \in Guidances \ {"None"} : FailuresUnder(guidance) = failures
     /\ (pc = "returned" /\ out # <<>>) => result.kind = "Ok"
     /\ (pc \in {"returned", "exit"} /\ result.kind # "Ok") =>
           /\ result.text = <<>>
           /\ out = <<>>)

\* C11 witness: in Longest mode with the tolerant flag off, main ended on the
\* InvalidWeightSpecifier error of "{a:x|b}" with nothing written
C11_Witness ==
  /\ args.prompt = Template_unparsable
  /\ args.choice_guidance = "Longest"
  /\ ~args.ignore_invalid_weight_literals
  /\ pc = "exit"
  /\ result.kind = "InvalidWeightSpecifier"
  /\ result.specifier = <<"x">>
  /\ out = <<>>

\* ------------------------------------------------------------ zero weights
\* the weight sum of the frame handed to the last call of Frame::choose
CallSum == SumWeights(Options(call[1].frame))

\* C12 (as claimed; the code returns such a choice on the draw 0): in
\* weighted-random mode a choice of weight 0 is never returned by
\* Frame::choose when the weights of the frame sum to more than 0, whatever
\* the draw and the position of the choice.
C12_ZeroWeightNeverChosen ==
  (args.choice_guidance = "None" /\ call # <<>> /\ CallSum > 0) =>
     /\ call[1].choice.weight > 0
     /\ \A k \in Draws : Frame_choose(call[1].frame, k, "None").weight > 0

\* C13 (as claimed; the code always returns the first choice): in
\* weighted-random mode, when every weight of the frame is 0, every choice of
\* the frame is returned for some draw.
C13_AllZeroIsUniform ==
  (args.choice_guidance = "None" /\ call # <<>> /\ CallSum = 0) =>
     \A i \in 1..Len(Options(call[1].frame)) :
        \E k \in Draws : WeightedIndex(call[1].frame, k) = i

\* ------------------------------------------------------- the last colon
Template_two_colons == <<"{", "a", ":", "1", ":", "3", "|", "b", "}">>

\* C14: a finalized segment is split at its last colon only: without a colon
\* the choice gets the whole segment and weight 1; with a non-negative number
\* after the last colon it gets the text before that colon, earlier colons
\* kept, and that number as weight (unless the step then fails on the brace).
\* "a:3:1" returns "a:3"; in "{a:1:3|b}" the first alternative is "a:1" with
\* weight 3, never "a" with weight 1.
C14_SplitAtLastColon ==
  /\ [][(Finalizes /\ ~NegativeSuffix(Pre(prompt)) /\ ~UnparsableSuffix(Pre(prompt))) =>
          LET segment == Pre(prompt)
              colon   == LastColon(segment)
              before  == IF colon = 0 THEN segment ELSE SubSeq(segment, 1, colon - 1)
              number  == IF colon = 0 THEN 1 ELSE Suffix(segment).value
          IN  \/ result'.kind \in {"UnexpectedClosingBrace", "UnclosedBrace"}
              \/ FinalizedAfter(NextControl(prompt), stack', call') =
                   [text |-> stack.top.top.text \o before, weight |-> number]]_vars
  /\ []((pc = "returned" /\ args.prompt = <<"a", ":", "3", ":", "1">>) =>
          result = Ok(<<"a", ":", "3">>))
  /\ []((pc = "scan" /\ args.prompt = Template_two_colons /\ prompt = <<>>) =>
          call[1].frame.choices = <<[text |-> <<"a", ":", "1">>, weight |-> 3]>>)
  /\ []((pc = "returned" /\ args.prompt = Template_two_colons) =>
          /\ (args.choice_guidance = "MostLikely" => result = Ok(<<"a", ":", "1">>))
          /\ (args.choice_guidance = "LeastLikely" => result = Ok(<<"b">>)))

\* C14 witness: "{a:1:3|b}" resolved to "a:1", the alternative of weight 3
C14_Witness ==
  /\ args.prompt = Template_two_colons
  /\ args.choice_guidance = "MostLikely"
  /\ pc = "scan"
  /\ prompt = <<>>
  /\ call[1].choice = [text |-> <<"a", ":", "1">>, weight |-> 3]
  /\ stack.top.top.text = <<"a", ":", "1">>

\* ------------------------------------------------- most and least likely
\* the positions of the alternatives of extreme weight
MaxWeightAt(cs) == {i \in 1..Len(cs) : \A j \in 1..Len(cs) : cs[j].weight <= cs[i].weight}

MinWeightAt(cs) == {i \in 1..Len(cs) : \A j \in 1..Len(cs) : cs[i].weight <= cs[j].weight}

\* C15: in MostLikely mode a closed frame resolves to the last of its
\* alternatives of maximum weight, in LeastLikely mode to the first of its
\* alternatives of minimum weight, an alternative without a specifier having
\* weight 1: "{a|c:1}" gives "c" in MostLikely mode and "a" in LeastLikely mode.
C15_MostLeastLikelyTieBreak ==
  [](/\ (call # <<>> /\ args.choice_guidance \in {"MostLikely", "LeastLikely"}) =>
           LET alts == Options(call[1].frame)
               last_max  == CHOOSE i \in MaxWeightAt(alts) : \A j \in MaxWeightAt(alts) : j <= i
               first_min == CHOOSE i \in MinWeightAt(alts) : \A j \in MinWeightAt(alts) : i <= j
           IN  call[1].choice = IF args.choice_guidance = "MostLikely"
                                THEN alts[last_max] ELSE alts[first_min]
     /\ (pc = "returned" /\ args.prompt = <<"{", "a", "|", "c", ":", "1", "}">>) =>
           /\ (args.choice_guidance = "MostLikely" => result = Ok(<<"c">>))
           /\ (args.choice_guidance = "LeastLikely" => result = Ok(<<"a">>)))

\* C15 witness: "{a|c:1}", a tie at the maximum weight 1, resolved to its last
\* alternative in MostLikely mode
C15_Witness ==
  /\ args.prompt = <<"{", "a", "|", "c", ":", "1", "}">>
  /\ args.choice_guidance = "MostLikely"
  /\ pc = "scan"
  /\ prompt = <<>>
  /\ call[1].frame.choices = <<[text |-> <<"a">>, weight |-> 1]>>
  /\ call[1].choice = [text |-> <<"c">>, weight |-> 1]

\* ------------------------------------------------------- the frame stack
\* the characters of the template the loop of generate has consumed
Scanned == Len(args.prompt) - Len(prompt)

\* C16: while a template is scanned the stack has its top frame and as many
\* pushed frames (Stack.stack) as '{' minus '}' were scanned, the count of
\* unmatched '{' so far; a step on '|' leaves that depth unchanged, one on '{'
\* raises it by one, a successful one on '}' lowers it by one.
C16_StackDepthIsUnmatchedOpens ==
  /\ [](pc = "scan" =>
          /\ DOMAIN stack = {"stack", "top"}
          /\ DOMAIN stack.top = {"start_index", "choices", "top"}
          /\ Len(stack.stack) = Depth(args.prompt, Scanned)
          /\ \A n \in 0..Scanned : Depth(args.prompt, n) >= 0)
  /\ [][(pc = "scan" /\ pc' = "scan") =>
          Len(stack'.stack) - Len(stack.stack) =
             CASE NextControl(prompt) = "|" -> 0
               [] NextControl(prompt) = "{" -> 1
               [] NextControl(prompt) = "}" -> 0 - 1]_vars

\* C16 witness: of "{{}" both '{' and the '}' are scanned, one frame is pushed
C16_Witness ==
  /\ args.prompt = <<"{", "{", "}">>
  /\ pc = "scan"
  /\ prompt = <<>>
  /\ Len(stack.stack) = 1
  /\ call # <<>>

\* ------------------------------------------------ text before a '{'
Template_colon_before_open == <<"{", "a", ":", "x", "{", "b", "}", "|", "c", "}">>

Template_negative_before_open == <<"{", "a", ":", "-", "1", "{", "b", "}", "|", "c", "}">>

\* C17: a step on '{' never fails and appends the text before the brace, colons
\* included, to the open choice of the parent frame, whose weight and completed
\* choices it leaves as they were, whatever the tolerant flag; "{a:x{b}|c}"
\* and "{a:-1{b}|c}" never fail and return "a:xb" / "a:-1b" or "c".
C17_OpenAppendsVerbatim ==
  /\ [][(pc = "scan" /\ NextControl(prompt) = "{") =>
          /\ pc' = "scan"
          /\ result' = NoResult
          /\ stack'.stack = Append(stack.stack,
                [stack.top EXCEPT !.top.text = stack.top.top.text \o Pre(prompt)])
          /\ stack'.stack[Len(stack'.stack)].top.weight = stack.top.top.weight]_vars
  /\ []((AtFirstEntry /\ args.prompt = Template_colon_before_open) =>
          /\ AllResults(G, options) \subseteq {Ok(<<"a", ":", "x", "b">>), Ok(<<"c">>)}
          /\ (args.choice_guidance = "Longest" =>
                AllResults(G, options) = {Ok(<<"a", ":", "x", "b">>)}))
  /\ []((AtFirstEntry /\ args.prompt = Template_negative_before_open) =>
          /\ AllResults(G, options) \subseteq {Ok(<<"a", ":", "-", "1", "b">>), Ok(<<"c">>)}
          /\ (args.choice_guidance = "Longest" =>
                AllResults(G, options) = {Ok(<<"a", ":", "-", "1", "b">>)}))

\* C17 witness: with the tolerant flag off "{a:-1{b}|c}" returned "a:-1b"
C17_Witness ==
  /\ args.prompt = Template_negative_before_open
  /\ ~args.ignore_invalid_weight_literals
  /\ pc = "returned"
  /\ result = Ok(<<"a", ":", "-", "1", "b">>)

\* ------------------------------------------------------ the order of errors
\* the points of the template t where a segment is finalized: its '|' and '}',
\* and the end of input, written Len(t) + 1
FinalizingPoints(t) == {p \in 1..Len(t) : t[p] \in {"|", "}"}} \cup {Len(t) + 1}

\* position of the control character before the point p of t, 0 without one
ControlBefore(t, p) ==
  IF \E i \in 1..(p - 1) : t[i] \in Control
  THEN CHOOSE i \in 1..(p - 1) : t[i] \in Control /\ \A j \in (i + 1)..(p - 1) : t[j] \notin Control
  ELSE 0

\* the literal segment finalized at the point p of t
SegmentBefore(t, p) == SubSeq(t, ControlBefore(t, p) + 1, p - 1)

\* the segment finalized at p has a weight specifier that is rejected
WeightErrorAt(t, p) ==
  \/ NegativeSuffix(SegmentBefore(t, p))
  \/ UnparsableSuffix(SegmentBefore(t, p)) /\ ~args.ignore_invalid_weight_literals

\* the brace check made at p fails: a '}' with no group open, or the end of
\* input with a group open
BraceErrorAt(t, p) ==
  IF p = Len(t) + 1 THEN Depth(t, Len(t)) > 0 ELSE t[p] = "}" /\ Depth(t, p - 1) = 0

\* the points of t where generate detects an error
ErrorPoints(t) == {p \in FinalizingPoints(t) : WeightErrorAt(t, p) \/ BraceErrorAt(t, p)}

\* the offending positions of t with the kind of error of each: the specifier
\* of a rejected weight, a '}' with no group open, a '{' without its '}'
OffendingPositions(t) ==
  {[at |-> ControlBefore(t, p) + LastColon(SegmentBefore(t, p)) + 1,
    kind |-> "InvalidWeightSpecifier"] : p \in {q \in FinalizingPoints(t) : WeightErrorAt(t, q)}}
  \cup {[at |-> i, kind |-> "UnexpectedClosingBrace"] :
          i \in {j \in 1..Len(t) : t[j] = "}" /\ Depth(t, j - 1) <= 0}}
  \cup {[at |-> i, kind |-> "UnclosedBrace"] : i \in {j \in 1..Len(t) : Unmatched(t, j)}}

\* C18 (as claimed; the two halves disagree on an unclosed '{' followed by a
\* rejected weight): where the weight check and the brace check both fail at
\* the first point of detection generate returns InvalidWeightSpecifier, and
\* the error returned is the one of the leftmost offending position of the
\* template, an unclosed '{' offending at its own position.
C18_LeftmostOffendingPosition ==
  pc = "returned" =>
     LET t == args.prompt
         offending == OffendingPositions(t)
         leftmost == CHOOSE o \in offending : \A q \in offending : o.at <= q.at
         first == CHOOSE p \in ErrorPoints(t) : \A q \in ErrorPoints(t) : p <= q
     IN  /\ IF offending = {} THEN result.kind = "Ok" ELSE result.kind = leftmost.kind
         /\ (ErrorPoints(t) # {} /\ WeightErrorAt(t, first) /\ BraceErrorAt(t, first)) =>
               result.kind = "InvalidWeightSpecifier"

\* C18 (amended): generate returns the error detected first in scan order, an
\* unclosed '{' being detected only at the end of input: at the first point
\* ('|', '}' or end of input) where the weight check or the brace check fails
\* it returns InvalidWeightSpecifier with that segment's specifier when the
\* weight check fails, else UnexpectedClosingBrace at a '}' and UnclosedBrace
\* at the end; without such a point it succeeds.
C18_FirstDetectedError ==
  [](pc = "returned" =>
        LET t == args.prompt
            first == CHOOSE p \in ErrorPoints(t) : \A q \in ErrorPoints(t) : p <= q
            segment == SegmentBefore(t, first)
        IN  IF ErrorPoints(t) = {} THEN result.kind = "Ok"
            ELSE IF WeightErrorAt(t, first)
            THEN /\ result.kind = "InvalidWeightSpecifier"
                 /\ result.specifier = SubSeq(segment, LastColon(segment) + 1, Len(segment))
                 /\ Scanned = ControlBefore(t, first)
            ELSE IF first = Len(t) + 1 THEN result.kind = "UnclosedBrace"
            ELSE result.kind = "UnexpectedClosingBrace" /\ Scanned = ControlBefore(t, first))

\* C18 witness: "{a:x" with the tolerant flag off failed on the weight "x", not
\* on the unclosed '{' to its left
C18_Witness ==
  /\ args.prompt = <<"{", "a", ":", "x">>
  /\ ~args.ignore_invalid_weight_literals
  /\ pc = "returned"
  /\ result.kind = "InvalidWeightSpecifier"
  /\ result.specifier = <<"x">>
  /\ stack.stack # <<>>

\* ------------------------------------------------------------ termination
\* the control characters of s
NumControl(s) == Cardinality({i \in 1..Len(s) : s[i] \in Control})

\* C19: generate terminates with a string or a ParseError: while it scans,
\* one of its four steps (on '|', '{', '}', at the end) can be taken; a step either returns, with a string or an error,
\* or leaves as unconsumed a strictly shorter suffix of what was unconsumed,
\* with exactly one control character less; without a control character left
\* the step returns. So the loop runs at most once per control character of
\* the template.
C19_ScanLoopTerminates ==
  /\ [](pc = "scan" => NextControl(prompt) \in {"|", "{", "}", "end"} /\ Draws # {})
  /\ [](pc = "scan" =>
          /\ result = NoResult
          /\ NumControl(args.prompt) - NumControl(prompt) <= NumControl(args.prompt)
          /\ prompt = SubSeq(args.prompt, Scanned + 1, Len(args.prompt)))
  /\ [](pc = "returned" =>
          result.kind \in {"Ok", "InvalidWeightSpecifier",
                           "UnexpectedClosingBrace", "UnclosedBrace"})
  /\ [][pc = "scan" =>
          \/ pc' = "returned" /\ result'.kind # "None"
          \/ /\ pc' = "scan"
             /\ NextControl(prompt) # "end"
             /\ Len(prompt') < Len(prompt)
             /\ NumControl(prompt') = NumControl(prompt) - 1]_vars

\* C19 witness: "{|}" is consumed after three iterations, one per control
\* character, and generate then returned
C19_Witness ==
  /\ args.prompt = <<"{", "|", "}">>
  /\ pc = "returned"
  /\ prompt = <<>>
  /\ NumControl(args.prompt) = 3
  /\ result = Ok(<<>>)

\* ---------------------------------------------------------------- no panic
\* C20: generate never panics: the byte index of the control character found
\* is a character boundary of the unconsumed suffix, the slice from it starts
\* with that control character (so unreachable!() is not reached), which is one
\* byte long (so post[1..] is on a boundary too), and every frame handed to
\* Frame::choose has at least one option to pop or remove.
C20_NeverPanics ==
  [](/\ result.kind # "Panic"
     /\ (pc = "scan" /\ Find(prompt) # 0) =>
           LET index == FindByte(prompt)
               post == SliceFrom(prompt, index)
           IN  /\ index < StrLen(prompt)
               /\ is_char_boundary(prompt, index)
               /\ post = SubSeq(prompt, Find(prompt), Len(prompt))
               /\ post[1] \in {"|", "{", "}"}
               /\ is_char_boundary(post, 1)
               /\ SliceFrom(post, 1) = Rest(G)
     /\ call # <<>> =>
           /\ Len(Options(call[1].frame)) >= 1
           /\ \E i \in 1..Len(Options(call[1].frame)) : call[1].choice = Options(call[1].frame)[i])

\* C20 witness: a template with a two-byte character, an empty group and an
\* empty alternative went through Frame::choose in a deterministic mode
C20_Witness ==
  /\ args.prompt = <<"U+00E9", "{", "}", "|">>
  /\ args.choice_guidance = "Shortest"
  /\ pc = "returned"
  /\ call[1].frame.choices = <<[text |-> <<"U+00E9">>, weight |-> 1]>>
  /\ result = Ok(<<>>)

====
